---------------------------- MODULE Spec2Model ----------------------------
(***************************************************************************)
(* A model of main.py: the token-launch monitor.  One process polls the    *)
(* listing API, remembers every token_mint_address it has seen in          *)
(* fetched_tokens, and for each new one looks up DexScreener and           *)
(* Honeypot.is, computes a safety score and posts a Telegram message.      *)
(*                                                                         *)
(* Python values are modelled as follows.                                  *)
(*   - a dict is a function whose DOMAIN is the set of keys present, so    *)
(*     d[k] on a missing key is the KeyError of the source and d.get(k, x) *)
(*     is Get(d, k, x);                                                    *)
(*   - a string is a sequence of lexemes (<<"http", "s", "://", ...>>),    *)
(*     so startswith is a prefix test and `in` a contiguous-subsequence    *)
(*     test;                                                               *)
(*   - a JSON scalar that reaches float() is a record [k, v]: k = "num" a  *)
(*     number or numeric string of value v, "nan" a NaN, "str" a           *)
(*     non-numeric string (float raises ValueError), "none" null (float    *)
(*     raises TypeError).                                                  *)
(***************************************************************************)
EXTENDS Integers, Sequences, FiniteSets, TLC

\* ------------------------------------------------------------------ bounds

\* Polling cycles of the while-loop that a behaviour may run.
MaxCycles == 2
\* Longest listing the upstream source returns.
MaxSnapshot == 2
\* Termination signals delivered in one behaviour.
MaxSignals == 1

\* --------------------------------------------------------- python helpers

\* dict.get(key, default)
Get(d, key, default) == IF key \in DOMAIN d THEN d[key] ELSE default

Num(n) == [k |-> "num", v |-> n]
NaN == [k |-> "nan", v |-> 0]
NonNumeric == [k |-> "str", v |-> 0]
Null == [k |-> "none", v |-> 0]

\* float(x) raises ValueError or TypeError
FloatRaises(x) == x.k \notin {"num", "nan"}
\* float(x) > n and float(x) < n; every comparison with a NaN is False
FloatGt(x, n) == x.k = "num" /\ x.v > n
FloatLt(x, n) == x.k = "num" /\ x.v < n

\* truthiness of a str
StrTruthy(s) == Len(s) > 0

\* str.lower(), lexeme by lexeme
LowerLexeme(c) ==
    CASE c = "EXAMPLE.COM" -> "example.com"
      [] c = "HTTP" -> "http"
      [] OTHER -> c
Lower(s) == [i \in 1..Len(s) |-> LowerLexeme(s[i])]

\* s.startswith(prefix)
StartsWith(s, prefix) ==
    /\ Len(prefix) <= Len(s)
    /\ SubSeq(s, 1, Len(prefix)) = prefix

\* needle in s
Contains(s, needle) ==
    \E i \in 1..(Len(s) + 1) :
        /\ i + Len(needle) - 1 <= Len(s)
        /\ SubSeq(s, i, i + Len(needle) - 1) = needle

\* ------------------------------------------------- calculate_safety_score

Baseline == 5
MinScore == 1
MaxScore == 10

\* 1. Developer fee: the try block of lines 109-118.
FeeAdjustment(token) ==
    LET dev_fee == Get(token, "developer_fee_percentage", Num(0))
    IN  IF FloatRaises(dev_fee) THEN 0
        ELSE IF FloatGt(dev_fee, 30) THEN -3
        ELSE IF FloatGt(dev_fee, 20) THEN -1
        ELSE IF FloatLt(dev_fee, 10) THEN 1
        ELSE 0

socials_to_check ==
    << [field |-> "website_url", prefix |-> <<"http">>],
       [field |-> "telegram_url", prefix |-> <<"t.me">>],
       [field |-> "x_account_url", prefix |-> <<"x.com">>] >>

\* the for loop of lines 128-130
SocialScore(token) ==
    Cardinality({ i \in 1..Len(socials_to_check) :
        /\ socials_to_check[i].field \in DOMAIN token
        /\ StrTruthy(token[socials_to_check[i].field])
        /\ StartsWith(token[socials_to_check[i].field], socials_to_check[i].prefix) })

\* lines 133-138 with the last test reading `>=` in place of `<`, so that one
\* social out of three already earns the partial bonus
SocialAdjustmentOneEarns(token) ==
    LET social_score == SocialScore(token)
        n == Len(socials_to_check)
    IN  IF social_score = n THEN 2
        ELSE IF social_score * 100 >= n * 33 THEN 1
        ELSE -1

\* 2. lines 133-138; 0.66 and 0.33 are kept exact by scaling both sides by 100
SocialAdjustment(token) ==
    LET social_score == SocialScore(token)
        n == Len(socials_to_check)
    IN  IF social_score = n THEN 2
        ELSE IF social_score * 100 >= n * 66 THEN 1
        ELSE IF social_score * 100 < n * 33 THEN -1
        ELSE 0

\* get_dex_data returns None or a dict
NoDexData == [isNone |-> TRUE]
DexTruthy(dex_data) == ~dex_data.isNone

\* lines 141-154 with float() of line 147 moved above the lock check of line
\* 143, so that a raising conversion skips the whole block
LiquidityAdjustmentFloatFirst(dex_data) ==
    IF ~DexTruthy(dex_data) THEN 0
    ELSE LET lock == IF dex_data.locked \/ dex_data.burned THEN 2 ELSE 0
             liquidity == dex_data.liquidity
         IN  IF FloatRaises(liquidity) THEN 0
             ELSE IF FloatLt(liquidity, 1000) THEN lock - 2
             ELSE IF FloatLt(liquidity, 5000) THEN lock - 1
             ELSE IF FloatGt(liquidity, 25000) THEN lock + 1
             ELSE lock

\* 3. Liquidity: the try block of lines 141-154.  The lock bonus is added
\* before float() can raise, so it survives an unknown liquidity amount.
LiquidityAdjustment(dex_data) ==
    IF ~DexTruthy(dex_data) THEN 0
    ELSE LET lock == IF dex_data.locked \/ dex_data.burned THEN 2 ELSE 0
             liquidity == dex_data.liquidity
         IN  IF FloatRaises(liquidity) THEN lock
             ELSE IF FloatLt(liquidity, 1000) THEN lock - 2
             ELSE IF FloatLt(liquidity, 5000) THEN lock - 1
             ELSE IF FloatGt(liquidity, 25000) THEN lock + 1
             ELSE lock

\* 4. Same wallet: lines 157-159
SameWalletAdjustment(token) ==
    IF /\ "dev_wallet_address" \in DOMAIN token
       /\ StrTruthy(token["dev_wallet_address"])
       /\ "distribution_wallet_address" \in DOMAIN token
       /\ StrTruthy(token["distribution_wallet_address"])
       /\ token["dev_wallet_address"] = token["distribution_wallet_address"]
    THEN -1 ELSE 0

\* 5. Website quality: lines 162-167.  Line 164 reads
\*      if 'http://' in website and not 'https://':
\* whose second operand is the negated truthiness of a string literal.
WebsiteAdjustment(token) ==
    IF "website_url" \in DOMAIN token /\ StrTruthy(token["website_url"])
    THEN LET website == Lower(token["website_url"])
             noSsl == /\ Contains(website, <<"http", "://">>)
                      /\ ~StrTruthy(<<"http", "s", "://">>)
             bad == \E bad_word \in {<<"example.com">>, <<"temp.com">>, <<"placeholder">>} :
                        Contains(website, bad_word)
         IN  (IF noSsl THEN -1 ELSE 0) + (IF bad THEN -2 ELSE 0)
    ELSE 0

\* is_honeypot: lines 79-88.  The response is a transport error or timeout,
\* or a JSON body that may or may not carry honeypotResult.isHoneypot.
HoneypotResponses ==
    { [k |-> "error", has |-> FALSE, isHoneypot |-> FALSE],
      [k |-> "json", has |-> FALSE, isHoneypot |-> FALSE],
      [k |-> "json", has |-> TRUE, isHoneypot |-> FALSE],
      [k |-> "json", has |-> TRUE, isHoneypot |-> TRUE] }

is_honeypot(response) ==
    IF response.k = "error" THEN FALSE
    ELSE IF response.has THEN response.isHoneypot
    ELSE FALSE

\* 6. Honeypot: the try block of lines 170-174.  hp is what the call of
\* is_honeypot at line 171 returned; a token without token_mint_address
\* raises KeyError before the call, and the bare except swallows it.
HoneypotAdjustment(token, hp) ==
    IF "token_mint_address" \notin DOMAIN token THEN 0
    ELSE IF hp THEN -3
    ELSE 0

Max(a, b) == IF a >= b THEN a ELSE b
Min(a, b) == IF a <= b THEN a ELSE b

\* line 177 without its lower bound: min(10, score)
ClampScoreUpperOnly(score) == Min(MaxScore, score)

\* line 177
ClampScore(score) == Max(MinScore, Min(MaxScore, score))

\* lines 106-174: the value of `score` when line 177 is reached; hp is the
\* answer of the honeypot lookup made at line 171
RawScore(token, dex_data, hp) ==
    Baseline
    + FeeAdjustment(token)
    + SocialAdjustment(token)
    + LiquidityAdjustment(dex_data)
    + SameWalletAdjustment(token)
    + WebsiteAdjustment(token)
    + HoneypotAdjustment(token, hp)

\* lines 102-177 with the bounds of line 177 applied after every adjustment
calculate_safety_score_clamping_each_step(token, dex_data, hp) ==
    ClampScore(ClampScore(ClampScore(ClampScore(ClampScore(ClampScore(
        Baseline
        + FeeAdjustment(token))
        + SocialAdjustment(token))
        + LiquidityAdjustment(dex_data))
        + SameWalletAdjustment(token))
        + WebsiteAdjustment(token))
        + HoneypotAdjustment(token, hp))

\* lines 102-177
calculate_safety_score(token, dex_data, hp) ==
    ClampScore(RawScore(token, dex_data, hp))

\* lines 199-207
SafetyComment(safety_score) ==
    IF safety_score >= 8 THEN "High Safety"
    ELSE IF safety_score >= 5 THEN "Medium Risk"
    ELSE "High Risk"


\* ------------------------------------------------------- external answers

\* get_dex_data: lines 57-77.  The response is a transport error / timeout /
\* unparsable body, or a JSON body with a number of pairs; the fields are
\* those of pairs[0].  price is pair.get('priceUsd', 0): Null when the key
\* is present with a null value.
DexResponse(k, pairs, liquidity, locked, burned, price) ==
    [k |-> k, pairs |-> pairs, liquidity |-> liquidity,
     locked |-> locked, burned |-> burned, price |-> price]

get_dex_data(response) ==
    IF response.k = "error" THEN NoDexData
    ELSE IF response.pairs > 0
         THEN [isNone |-> FALSE,
               liquidity |-> response.liquidity,
               locked |-> response.locked,
               burned |-> response.burned,
               price |-> response.price]
         ELSE NoDexData

\* fetch_data: lines 48-55.  A response is a transport error, or an HTTP
\* answer with a status class and a body; the body parses as JSON or not,
\* and a parsed body is a list of token records or some other JSON value
\* (an object such as {"message": ...}).
FetchResponse(k, ok, parses, shape, items) ==
    [k |-> k, ok |-> ok, parses |-> parses, shape |-> shape, items |-> items]

EmptyList == [shape |-> "list", items |-> <<>>]

\* fetch_data without line 51: the body of a non-2xx answer is returned
fetch_data_unchecked(response) ==
    IF response.k = "transport" THEN EmptyList
    ELSE IF ~response.parses THEN EmptyList
    ELSE [shape |-> response.shape, items |-> response.items]

fetch_data(response) ==
    IF response.k = "transport" THEN EmptyList       \* requests.get raises
    ELSE IF ~response.ok THEN EmptyList              \* raise_for_status raises
    ELSE IF ~response.parses THEN EmptyList          \* response.json() raises
    ELSE [shape |-> response.shape, items |-> response.items]

\* the poll failed: a transport error, a non-2xx status or an unparsable
\* body (what lines 50, 51 and 52 raise on)
PollFailed(response) ==
    response.k = "transport" \/ ~response.ok \/ ~response.parses

\* truthiness of what fetch_data returned (a non-empty object is truthy)
TokensTruthy(t) == t.shape # "list" \/ Len(t.items) > 0

\* ------------------------------------------------------------ token data

Without(d, key) == [x \in DOMAIN d \ {key} |-> d[x]]

WellFormed(id, fee, website, wallet) ==
    [token_mint_address |-> id,
     token_name |-> <<"name">>,
     token_ticker |-> <<"TKR">>,
     developer_fee_percentage |-> fee,
     website_url |-> website,
     telegram_url |-> <<"t.me", "/grp">>,
     x_account_url |-> <<"x.com", "/acct">>,
     dev_wallet_address |-> <<"W1">>,
     distribution_wallet_address |-> wallet,
     distribution_interval |-> Num(5),
     image_url |-> <<"http", "s", "://", "img.png">>]

TokenA == WellFormed("A", Num(5), <<"http", "s", "://", "site.io">>, <<"W2">>)
TokenB == WellFormed("B", Num(50), <<"http", "://", "EXAMPLE.COM">>, <<"W1">>)
TokenNoWallet == Without(WellFormed("C", Num(15), <<"http", "s", "://", "site.io">>, <<"W2">>),
                         "dev_wallet_address")
TokenNoName == Without(WellFormed("E", Num(15), <<>>, <<"W2">>), "token_name")
TokenNoMint == Without(WellFormed("F", Num(15), <<>>, <<"W2">>), "token_mint_address")

\* the records the listing source serves in the monitor's behaviours
TokenPool == {TokenA, TokenB, TokenNoWallet, TokenNoName, TokenNoMint}

RECURSIVE SeqsUpTo(_, _)
SeqsUpTo(S, n) ==
    IF n = 0 THEN {<<>>}
    ELSE LET shorter == SeqsUpTo(S, n - 1)
         IN  shorter \cup { Append(s, x) : s \in { t \in shorter : Len(t) = n - 1 }, x \in S }

\* what the upstream source may list at one instant
Listings == SeqsUpTo(TokenPool, MaxSnapshot)

\* the identities a listing carries
IdsOf(items) ==
    { items[i]["token_mint_address"] :
        i \in { j \in 1..Len(items) : "token_mint_address" \in DOMAIN items[j] } }

\* the answers the listing endpoint may give while the upstream lists `up`
FetchResponsesFor(up) ==
    { FetchResponse("transport", FALSE, FALSE, "list", <<>>),
      FetchResponse("http", FALSE, TRUE, "list", up),
      FetchResponse("http", TRUE, FALSE, "list", <<>>),
      FetchResponse("http", TRUE, TRUE, "object", <<>>),
      FetchResponse("http", TRUE, TRUE, "list", up) }

\* the answers it may give at all
FetchResponses == UNION { FetchResponsesFor(up) : up \in Listings }

DexResponses ==
    { DexResponse("error", 0, Null, FALSE, FALSE, Num(0)),
      DexResponse("json", 0, Null, FALSE, FALSE, Num(0)),
      DexResponse("json", 1, Num(30000), TRUE, FALSE, Num(1)),
      DexResponse("json", 2, Num(500), FALSE, FALSE, Null) }


\* ------------------------------------------------------------------ state

VARIABLES
    pc,               \* the statement the process is at
    exit,             \* "running", or how the process ended: "exit0" (sys.exit(0)),
                      \* "killed" (default signal disposition), "raised in ..."
    fetched_tokens,   \* the global dict of line 27: token_mint_address -> token
    tokens,           \* what fetch_data returned in this cycle
    idx,              \* position of the for loop of line 297 (1-based)
    dex_data,         \* send_token_info's local, line 193
    safety_score,     \* send_token_info's local, line 196
    honeypot_warning, \* send_token_info's local, line 210: is the warning line set
    penalised,        \* history: line 172 subtracted 3 from the current score
    handlers,         \* graceful_shutdown is installed (lines 313-314)
    signals,          \* termination signals delivered so far
    shutdown_sent,    \* graceful_shutdown has posted its message (line 308)
    after_shutdown,   \* history: a poll or a token post happened after that message
    cycle,            \* history: 0 while seeding, then the number of the polling cycle
    fetch_failed,     \* history: the last fetch_data took its except branch
    preexisting,      \* history, kept through the first cycle: the identities
                      \* listed upstream at the seeding poll
    start_tokens,     \* history: fetched_tokens at the start of the cycle
    cycle_invoked,    \* history: identities send_token_info was called for, this cycle
    aux_calls,        \* history: auxiliary lookups made in this cycle
    calls,            \* history: how often send_token_info was called, per identity
    last_post,        \* history: "none", or how the latest photo post of this
                      \* cycle ended
    failed,           \* history: identities whose photo post failed (line 278)
    score_before      \* history: what an earlier evaluation of the scorer on the
                      \* same arguments returned, NoScore if there was none

vars == << pc, exit, fetched_tokens, tokens, idx, dex_data, safety_score,
           honeypot_warning, penalised, handlers, signals, shutdown_sent,
           after_shutdown, cycle, fetch_failed, preexisting, start_tokens,
           cycle_invoked, aux_calls, calls, last_post, failed, score_before >>

locals == << dex_data, safety_score, honeypot_warning, penalised >>
signalling == << handlers, signals, shutdown_sent >>
cycle_history == << cycle, fetch_failed, start_tokens, cycle_invoked, aux_calls >>

EmptyDict == [x \in {} |-> x]
NoScore == 0

\* a loop that visits the list from its end: for token in reversed(tokens)
IterationReversed(items) == [i \in 1..Len(items) |-> items[Len(items) + 1 - i]]

\* the order in which `for token in tokens` visits a list
IterationOrder(items) == items

\* the token the for loop of line 297 is at
CurToken == IterationOrder(tokens.items)[idx]

Init ==
    /\ pc = "start"
    /\ exit = "running"
    /\ fetched_tokens = EmptyDict
    /\ tokens = EmptyList
    /\ idx = 1
    /\ dex_data = NoDexData
    /\ safety_score = NoScore
    /\ honeypot_warning = FALSE
    /\ penalised = FALSE
    /\ handlers = FALSE
    /\ signals = 0
    /\ shutdown_sent = FALSE
    /\ after_shutdown = FALSE
    /\ cycle = 0
    /\ fetch_failed = FALSE
    /\ preexisting = {}
    /\ start_tokens = EmptyDict
    /\ cycle_invoked = <<>>
    /\ aux_calls = 0
    /\ calls = EmptyDict
    /\ last_post = "none"
    /\ failed = {}
    /\ score_before = NoScore

\* an exception nobody catches leaves monitor_new_tokens and ends the process
\* with a traceback; site is the function whose statement raised it
Raise(site) ==
    /\ pc' = "terminated"
    /\ exit' = site

\* ------------------------------------------------------------- operations

\* lines 312-314: the start message (send_telegram_message catches its own
\* failures), then the two signal.signal calls
Startup ==
    /\ UNCHANGED << failed, score_before >>
    /\ pc = "start"
    /\ pc' = "seed"
    /\ handlers' = TRUE
    /\ UNCHANGED << exit, fetched_tokens, tokens, idx, locals, signals,
                    shutdown_sent, after_shutdown, cycle_history, preexisting,
                    calls, last_post >>

\* one more call of send_token_info(token) for token_id
Called(count, token_id) ==
    [x \in DOMAIN count \cup {token_id} |->
        IF x = token_id THEN Get(count, x, 0) + 1 ELSE count[x]]

\* line 299 with the membership test lost: every listed token counts as new
IsNewUnchecked(token_id, fetched) == TRUE

\* line 299
IsNew(token_id, fetched) == token_id \notin DOMAIN fetched

\* line 301 left out: the token is never recorded
InsertTokenForgotten(fetched, token_id, token) == fetched

\* line 301 rebinding the dict: fetched_tokens = {token_id: token}
InsertTokenReplacing(fetched, token_id, token) == [x \in {token_id} |-> token]

\* lines 289 and 301: fetched_tokens[token_id] = token
InsertToken(fetched, token_id, token) ==
    [x \in DOMAIN fetched \cup {token_id} |->
        IF x = token_id THEN token ELSE fetched[x]]

\* the for loop of lines 287-289 over items[i..]: the dict it leaves and
\* whether token["token_mint_address"] raised KeyError on the way
RECURSIVE SeedLoop(_, _, _)
SeedLoop(items, i, fetched) ==
    IF i > Len(items) THEN [fetched |-> fetched, raised |-> FALSE]
    ELSE IF "token_mint_address" \notin DOMAIN items[i]
         THEN [fetched |-> fetched, raised |-> TRUE]
         ELSE SeedLoop(items, i + 1,
                       InsertToken(fetched, items[i]["token_mint_address"], items[i]))

\* lines 284-290: the seeding poll.  `up` is what the upstream lists now.
Seed ==
    /\ UNCHANGED << failed, score_before >>
    /\ pc = "seed"
    /\ \E up \in Listings : \E response \in FetchResponsesFor(up) :
        LET initial_tokens == fetch_data(response)
            loop == SeedLoop(IterationOrder(initial_tokens.items), 1, fetched_tokens)
        IN  /\ preexisting' = IdsOf(up)
            /\ fetch_failed' = PollFailed(response)
            /\ IF ~TokensTruthy(initial_tokens)
               THEN /\ pc' = "poll"
                    /\ UNCHANGED << exit, fetched_tokens >>
               ELSE IF initial_tokens.shape # "list"
               THEN \* iterating an object yields its keys; str["..."] is a TypeError
                    /\ Raise("raised in seeding")
                    /\ UNCHANGED fetched_tokens
               ELSE /\ fetched_tokens' = loop.fetched
                    /\ IF loop.raised THEN Raise("raised in seeding")
                       ELSE pc' = "poll" /\ UNCHANGED exit
    /\ after_shutdown' = (after_shutdown \/ shutdown_sent)
    /\ UNCHANGED << tokens, idx, locals, signalling, cycle, start_tokens,
                    cycle_invoked, aux_calls, calls, last_post >>

\* lines 293-296: fetch_data and the test `if tokens:`
Poll ==
    /\ UNCHANGED << failed, score_before >>
    /\ pc = "poll"
    /\ cycle < MaxCycles
    /\ \E response \in FetchResponses :
        LET fetched == fetch_data(response)
        IN  /\ tokens' = fetched
            /\ fetch_failed' = PollFailed(response)
            /\ pc' = IF TokensTruthy(fetched) THEN "examine" ELSE "sleep"
    /\ idx' = 1
    /\ cycle' = cycle + 1
    /\ start_tokens' = fetched_tokens
    /\ cycle_invoked' = <<>>
    /\ aux_calls' = 0
    /\ after_shutdown' = (after_shutdown \/ shutdown_sent)
    /\ preexisting' = IF cycle = 0 THEN preexisting ELSE {}
    /\ UNCHANGED << exit, fetched_tokens, locals, signalling, calls, last_post >>

\* lines 297-302, one iteration of the for loop up to the call at line 302
Examine ==
    /\ UNCHANGED << failed, score_before >>
    /\ pc = "examine"
    /\ IF tokens.shape # "list"
       THEN /\ Raise("raised in loop")                       \* TypeError, line 298
            /\ UNCHANGED << fetched_tokens, idx, cycle_invoked, calls >>
       ELSE IF idx > Len(tokens.items)
       THEN /\ pc' = "sleep"
            /\ UNCHANGED << exit, fetched_tokens, idx, cycle_invoked, calls >>
       ELSE IF "token_mint_address" \notin DOMAIN CurToken
       THEN /\ Raise("raised in loop")                       \* KeyError, line 298
            /\ UNCHANGED << fetched_tokens, idx, cycle_invoked, calls >>
       ELSE LET token_id == CurToken["token_mint_address"]
            IN  IF ~IsNew(token_id, fetched_tokens)
                THEN /\ idx' = idx + 1
                     /\ UNCHANGED << pc, exit, fetched_tokens, cycle_invoked, calls >>
                ELSE IF "token_name" \notin DOMAIN CurToken
                THEN /\ Raise("raised in loop")              \* KeyError, line 300
                     /\ UNCHANGED << fetched_tokens, idx, cycle_invoked, calls >>
                ELSE /\ fetched_tokens' = InsertToken(fetched_tokens, token_id, CurToken)
                     /\ calls' = Called(calls, token_id)
                     /\ cycle_invoked' = Append(cycle_invoked, token_id)
                     /\ pc' = "send_token_info"
                     /\ UNCHANGED << exit, idx >>
    /\ UNCHANGED << tokens, locals, signalling, after_shutdown, cycle, fetch_failed,
                    preexisting, start_tokens, aux_calls, last_post >>

\* lines 184-190: the URLs built from token_mint_address and dev_wallet_address
SendTokenInfo ==
    /\ UNCHANGED << failed, score_before >>
    /\ pc = "send_token_info"
    /\ IF "dev_wallet_address" \notin DOMAIN CurToken
       THEN Raise("raised in send_token_info")              \* KeyError, line 190
       ELSE pc' = "get_dex_data" /\ UNCHANGED exit
    /\ UNCHANGED << fetched_tokens, tokens, idx, locals, signalling, after_shutdown,
                    cycle_history, preexisting, calls, last_post >>

\* line 193
GetDexData ==
    /\ UNCHANGED << failed, score_before >>
    /\ pc = "get_dex_data"
    /\ \E response \in DexResponses : dex_data' = get_dex_data(response)
    /\ aux_calls' = aux_calls + 1
    /\ pc' = "score_honeypot"
    /\ UNCHANGED << exit, fetched_tokens, tokens, idx, safety_score, honeypot_warning,
                    penalised, signalling, after_shutdown, cycle, fetch_failed,
                    preexisting, start_tokens, cycle_invoked, calls, last_post >>

\* line 196: calculate_safety_score, whose honeypot lookup (line 171) answers
Score ==
    /\ UNCHANGED << failed, score_before >>
    /\ pc = "score_honeypot"
    /\ \E response \in HoneypotResponses :
        LET hp == is_honeypot(response)
        IN  /\ safety_score' = calculate_safety_score(CurToken, dex_data, hp)
            /\ penalised' = (HoneypotAdjustment(CurToken, hp) # 0)
    /\ aux_calls' = aux_calls + 1
    /\ pc' = "warn_honeypot"
    /\ UNCHANGED << exit, fetched_tokens, tokens, idx, dex_data, honeypot_warning,
                    signalling, after_shutdown, cycle, fetch_failed, preexisting,
                    start_tokens, cycle_invoked, calls, last_post >>

\* format_currency, lines 90-100: does float(value) raise
FormatCurrencyRaises(value) ==
    /\ ~(value.k = "none" \/ (value.k = "num" /\ value.v = 0))   \* `if not value`
    /\ FloatRaises(value)

\* the token keys the caption and the payload subscript, lines 228-268
CaptionKeys ==
    { "token_name", "token_ticker", "developer_fee_percentage", "token_mint_address",
      "website_url", "x_account_url", "telegram_url", "distribution_interval",
      "image_url" }

\* lines 218-272: does building the caption and the payload raise
CaptionRaises(token, dex) ==
    \/ DexTruthy(dex) /\ FormatCurrencyRaises(dex.liquidity)       \* line 218
    \/ DexTruthy(dex) /\ FloatRaises(dex.price)                    \* line 220
    \/ \E key \in CaptionKeys : key \notin DOMAIN token            \* KeyError
    \/ /\ "developer_fee_percentage" \in DOMAIN token              \* line 238
       /\ FloatRaises(token["developer_fee_percentage"])

\* lines 209-272, from the answer of the second honeypot lookup (line 212)
\* to the payload; warning is what the try block left in honeypot_warning
BuildMessage(warning) ==
    /\ honeypot_warning' = warning
    /\ IF CaptionRaises(CurToken, dex_data)
       THEN Raise("raised in send_token_info")
       ELSE pc' = "post" /\ UNCHANGED exit

Warn ==
    /\ UNCHANGED << failed, score_before >>
    /\ pc = "warn_honeypot"
    /\ \E response \in HoneypotResponses : BuildMessage(is_honeypot(response))
    /\ aux_calls' = aux_calls + 1
    /\ UNCHANGED << fetched_tokens, tokens, idx, dex_data, safety_score, penalised,
                    signalling, after_shutdown, cycle, fetch_failed, preexisting,
                    start_tokens, cycle_invoked, calls, last_post >>

\* lines 274-279: the photo post; a failure is caught and printed.  Then
\* send_token_info returns and the for loop moves on.
Post ==
    /\ pc = "post"
    /\ \E ok \in BOOLEAN :
        /\ last_post' = IF ok THEN "ok" ELSE "failed"
        /\ failed' = IF ok THEN failed ELSE failed \cup {CurToken["token_mint_address"]}
    /\ UNCHANGED score_before
    /\ after_shutdown' = (after_shutdown \/ shutdown_sent)
    /\ idx' = idx + 1
    /\ pc' = "examine"
    /\ dex_data' = NoDexData
    /\ safety_score' = NoScore
    /\ honeypot_warning' = FALSE
    /\ penalised' = FALSE
    /\ UNCHANGED << exit, fetched_tokens, tokens, signalling, cycle_history,
                    preexisting, calls >>

\* line 304.  The cycle is over: `tokens` is dead until line 294 assigns it
\* again, and the histories of the cycle are closed.
Sleep ==
    /\ UNCHANGED << failed, score_before >>
    /\ pc = "sleep"
    /\ pc' = "poll"
    /\ tokens' = EmptyList
    /\ idx' = 1
    /\ start_tokens' = EmptyDict
    /\ cycle_invoked' = <<>>
    /\ aux_calls' = 0
    /\ fetch_failed' = FALSE
    /\ last_post' = "none"
    /\ UNCHANGED << exit, fetched_tokens, locals, signalling, after_shutdown,
                    cycle, preexisting, calls >>


\* The try blocks whose handler is a bare `except:` (lines 170-174 and
\* 211-215) catch the SystemExit that sys.exit raises; is_honeypot's own
\* `except Exception` does not, so it reaches them while the lookup is in
\* flight.  Everywhere else the SystemExit leaves the program.
SwallowsSystemExit(at) == at \in {"score_honeypot", "warn_honeypot"}

\* The process is gone: its locals and the histories of the open cycle
\* with it.  fetched_tokens is kept as it was at the exit.
ProcessEnds(how) ==
    /\ pc' = "terminated"
    /\ exit' = how
    /\ tokens' = EmptyList
    /\ idx' = 1
    /\ dex_data' = NoDexData
    /\ safety_score' = NoScore
    /\ honeypot_warning' = FALSE
    /\ penalised' = FALSE
    /\ fetch_failed' = FALSE
    /\ start_tokens' = EmptyDict
    /\ cycle_invoked' = <<>>
    /\ aux_calls' = 0
    /\ last_post' = "none"

\* SIGINT or SIGTERM arrives.  Before lines 313-314 the default disposition
\* ends the process.  Afterwards graceful_shutdown (lines 306-309) runs at
\* the interrupted statement: it posts its message and raises SystemExit.
\* The windows modelled are the statements that block on the network.
Signal ==
    /\ UNCHANGED << failed, score_before >>
    /\ exit = "running"
    /\ signals < MaxSignals
    /\ signals' = signals + 1
    /\ UNCHANGED << fetched_tokens, handlers, after_shutdown, cycle, preexisting, calls >>
    /\ IF ~handlers
       THEN /\ ProcessEnds("killed")
            /\ UNCHANGED shutdown_sent
       ELSE /\ shutdown_sent' = TRUE
            /\ IF SwallowsSystemExit(pc) /\ pc = "score_honeypot"
               THEN \* line 173: the penalty is skipped, the scorer goes on to line 177
                    /\ safety_score' = calculate_safety_score(CurToken, dex_data, FALSE)
                    /\ penalised' = FALSE
                    /\ aux_calls' = aux_calls + 1
                    /\ pc' = "warn_honeypot"
                    /\ UNCHANGED << exit, tokens, idx, dex_data, honeypot_warning,
                                    fetch_failed, start_tokens, cycle_invoked, last_post >>
               ELSE IF SwallowsSystemExit(pc) /\ pc = "warn_honeypot"
               THEN \* line 214: the warning stays empty, send_token_info goes on
                    /\ BuildMessage(FALSE)
                    /\ aux_calls' = aux_calls + 1
                    /\ UNCHANGED << tokens, idx, dex_data, safety_score, penalised,
                                    fetch_failed, start_tokens, cycle_invoked, last_post >>
               ELSE ProcessEnds("exit0")

Next ==
    \/ Startup
    \/ Seed
    \/ Poll
    \/ Examine
    \/ SendTokenInfo
    \/ GetDexData
    \/ Score
    \/ Warn
    \/ Post
    \/ Sleep
    \/ Signal

Spec == Init /\ [][Next]_vars

\* ------------------------------------------ the scorer on arbitrary inputs

Option(key, values) == {EmptyDict} \cup { key :> v : v \in values }

FeeNumbers == {-5, 5, 10, 20, 21, 30, 31, 50, 1000000}
FeeValues == {Null, NonNumeric, NaN} \cup { Num(n) : n \in FeeNumbers }

WebsiteValues ==
    { <<>>,
      <<"http", "s", "://", "site.io">>,
      <<"http", "://", "site.io">>,
      <<"HTTP", "://", "EXAMPLE.COM">>,
      <<"http", "s", "://", "placeholder">>,
      <<"www.", "temp.com">> }

TelegramValues == { <<"t.me", "/grp">>, <<"http", "s", "://", "t.me", "/grp">> }
XValues == { <<"x.com", "/acct">>, <<"twitter.com", "/acct">> }

WalletPairs ==
    { EmptyDict,
      "dev_wallet_address" :> <<"W1">>,
      ("dev_wallet_address" :> <<"W1">>) @@ ("distribution_wallet_address" :> <<"W1">>),
      ("dev_wallet_address" :> <<"W1">>) @@ ("distribution_wallet_address" :> <<"W2">>) }

\* token records with every combination of the attributes the scorer reads
ScoreTokens ==
    { mint @@ fee @@ web @@ tg @@ x @@ wallets :
        mint \in Option("token_mint_address", {"A"}),
        fee \in Option("developer_fee_percentage", FeeValues),
        web \in Option("website_url", WebsiteValues),
        tg \in Option("telegram_url", TelegramValues),
        x \in Option("x_account_url", XValues),
        wallets \in WalletPairs }

LiquidityValues ==
    {Null, NonNumeric} \cup { Num(n) : n \in {-1, 500, 1000, 4999, 5000, 25000, 25001, 30000} }

\* every value get_dex_data can return
ScoreDexData ==
    {NoDexData} \cup
    { get_dex_data(DexResponse("json", 1, liquidity, locked, burned, Num(1))) :
        liquidity \in LiquidityValues, locked \in BOOLEAN, burned \in BOOLEAN }

\* send_token_info at line 196 with an arbitrary token and arbitrary facts
InitScore ==
    /\ pc = "score_honeypot"
    /\ exit = "running"
    /\ \E token \in ScoreTokens :
        /\ tokens = [shape |-> "list", items |-> <<token>>]
        /\ fetched_tokens = IF "token_mint_address" \in DOMAIN token
                            THEN InsertToken(EmptyDict, token["token_mint_address"], token)
                            ELSE EmptyDict
    /\ idx = 1
    /\ dex_data \in ScoreDexData
    /\ safety_score = NoScore
    /\ honeypot_warning = FALSE
    /\ penalised = FALSE
    /\ handlers = TRUE
    /\ signals = 0
    /\ shutdown_sent = FALSE
    /\ after_shutdown = FALSE
    /\ cycle = 1
    /\ fetch_failed = FALSE
    /\ preexisting = {}
    /\ start_tokens = EmptyDict
    /\ cycle_invoked = <<>>
    /\ aux_calls = 1
    /\ calls = EmptyDict
    /\ last_post = "none"
    /\ failed = {}
    /\ score_before = NoScore

ScoreSpec == InitScore /\ [][Score]_vars

\* calculate_safety_score, lines 102-177, evaluated once more on the token and
\* the facts of the evaluation before; the request of line 171 is made anew
ScoreAgain ==
    /\ pc = "warn_honeypot"
    /\ score_before = NoScore
    /\ score_before' = safety_score
    /\ \E response \in HoneypotResponses :
        LET hp == is_honeypot(response)
        IN  /\ safety_score' = calculate_safety_score(CurToken, dex_data, hp)
            /\ penalised' = (HoneypotAdjustment(CurToken, hp) # 0)
    /\ aux_calls' = aux_calls + 1
    /\ UNCHANGED << pc, exit, fetched_tokens, tokens, idx, dex_data, honeypot_warning,
                    signalling, after_shutdown, cycle, fetch_failed, preexisting,
                    start_tokens, cycle_invoked, calls, last_post, failed >>

NextRescore ==
    \/ Score
    \/ ScoreAgain

RescoreSpec == InitScore /\ [][NextRescore]_vars

\* --------------------------------------- one listed token, any field absent

\* a complete record, and the same record with one key absent
ItemTokens ==
    {TokenA, TokenB} \cup { Without(TokenA, key) : key \in DOMAIN TokenA }

\* line 297 of a cycle whose poll returned one token, nothing seen before
InitItem ==
    /\ pc = "examine"
    /\ exit = "running"
    /\ fetched_tokens = EmptyDict
    /\ \E token \in ItemTokens : tokens = [shape |-> "list", items |-> <<token>>]
    /\ idx = 1
    /\ dex_data = NoDexData
    /\ safety_score = NoScore
    /\ honeypot_warning = FALSE
    /\ penalised = FALSE
    /\ handlers = TRUE
    /\ signals = 0
    /\ shutdown_sent = FALSE
    /\ after_shutdown = FALSE
    /\ cycle = 1
    /\ fetch_failed = FALSE
    /\ preexisting = {}
    /\ start_tokens = EmptyDict
    /\ cycle_invoked = <<>>
    /\ aux_calls = 0
    /\ calls = EmptyDict
    /\ last_post = "none"
    /\ failed = {}
    /\ score_before = NoScore

\* the body of the for loop, lines 297-302, and send_token_info
NextItem ==
    \/ Examine
    \/ SendTokenInfo
    \/ GetDexData
    \/ Score
    \/ Warn
    \/ Post

ItemSpec == InitItem /\ [][NextItem]_vars


\* ------------------------------------------------------------- properties

\* a polling cycle is open and its poll returned a non-empty list
InCycle == cycle >= 1 /\ tokens.shape = "list" /\ Len(tokens.items) > 0

\* every token of the snapshot carries an identity of the set `seen`
AllSeen(items, seen) ==
    \A i \in 1..Len(items) :
        /\ "token_mint_address" \in DOMAIN items[i]
        /\ items[i]["token_mint_address"] \in seen

\* the identities of `items` that are not in `seen`, each once, in list order
RECURSIVE NewOrder(_, _)
NewOrder(items, seen) ==
    IF items = <<>> THEN <<>>
    ELSE LET id == Head(items)["token_mint_address"]
         IN  IF id \in seen THEN NewOrder(Tail(items), seen)
             ELSE <<id>> \o NewOrder(Tail(items), seen \cup {id})

\* C1: send_token_info is called at most once per token_mint_address during
\* the life of the process, whatever the polls return.
C1_AtMostOnce == \A id \in DOMAIN calls : calls[id] <= 1

\* a cycle has ended whose snapshot listed one identity twice, and that
\* identity was notified in it
C1_Witness ==
    /\ pc = "sleep"
    /\ InCycle
    /\ \E i, j \in 1..Len(tokens.items) :
        /\ i < j
        /\ tokens.items[i] = tokens.items[j]
        /\ "token_mint_address" \in DOMAIN tokens.items[i]
        /\ cycle_invoked = << tokens.items[i]["token_mint_address"] >>
        /\ calls[tokens.items[i]["token_mint_address"]] = 1

\* C2: when every identity of the polled snapshot was already in the seen-set
\* at the start of the cycle, the cycle calls send_token_info for no token and
\* leaves fetched_tokens as it was.
C2_RepollQuiet ==
    (InCycle /\ AllSeen(tokens.items, DOMAIN start_tokens))
        => (cycle_invoked = <<>> /\ fetched_tokens = start_tokens)

\* the second cycle ends on a snapshot of two tokens, one known from the
\* seeding and one notified by the first cycle
C2_Witness ==
    /\ pc = "sleep"
    /\ cycle = 2
    /\ InCycle
    /\ AllSeen(tokens.items, DOMAIN start_tokens)
    /\ \E i, j \in 1..Len(tokens.items) :
        /\ tokens.items[i]["token_mint_address"] \in DOMAIN calls
        /\ tokens.items[j]["token_mint_address"] \notin DOMAIN calls

\* C3: the first polling cycle calls send_token_info for no identity that was
\* listed upstream at the seeding poll, whatever the outcome of that poll.
C3_NoFirstCycleFlood ==
    cycle = 1 => \A i \in 1..Len(cycle_invoked) : cycle_invoked[i] \notin preexisting

\* C4: at every point of a cycle the calls of send_token_info made so far are
\* the not-yet-seen identities of the examined part of the snapshot, in
\* snapshot order, and every examined identity is in fetched_tokens before the
\* next token is examined.
C4_PollOrder ==
    (InCycle /\ exit = "running") =>
        LET examined == IF pc \in {"examine", "sleep"} THEN idx - 1 ELSE idx
            done == SubSeq(tokens.items, 1, examined)
        IN  /\ cycle_invoked = NewOrder(done, DOMAIN start_tokens)
            /\ DOMAIN fetched_tokens = DOMAIN start_tokens \cup IdsOf(done)

\* a cycle has notified two new tokens, the later key of the alphabet first
C4_Witness ==
    /\ pc = "sleep"
    /\ InCycle
    /\ tokens.items = <<TokenB, TokenA>>
    /\ cycle_invoked = <<"B", "A">>

\* C5: no step removes a key of fetched_tokens.
C5_SeenMonotonic == [][DOMAIN fetched_tokens \subseteq DOMAIN fetched_tokens']_vars

\* a cycle has ended whose snapshot no longer lists an identity that was
\* seen before; the identity is still a key and was not notified
C5_Witness ==
    /\ pc = "sleep"
    /\ InCycle
    /\ \E id \in DOMAIN start_tokens :
        /\ id \notin IdsOf(tokens.items)
        /\ id \in DOMAIN fetched_tokens
        /\ \A i \in 1..Len(cycle_invoked) : cycle_invoked[i] # id

\* C6: when send_token_info fails for one new token of a snapshot, the tokens
\* after it in that snapshot are still processed: every complete record
\* listed after it has its identity in fetched_tokens.
C6_ItemIsolation ==
    exit = "raised in send_token_info" =>
        \A j \in (idx + 1)..Len(tokens.items) :
            CaptionKeys \subseteq DOMAIN tokens.items[j]
                => tokens.items[j]["token_mint_address"] \in DOMAIN fetched_tokens

\* C7: without a termination signal, nothing a poll, an auxiliary service, the
\* channel or a token record does ends the monitor loop.
C7_LoopSurvives == (cycle >= 1 /\ signals = 0) => exit = "running"

\* C8: in a cycle whose poll failed, fetched_tokens is unchanged, no auxiliary
\* lookup is made and send_token_info is called for no token; a failed
\* seeding poll leaves fetched_tokens empty.
C8_FailedPollNoChange ==
    /\ (cycle >= 1 /\ fetch_failed) =>
            /\ pc \in {"sleep", "terminated"}
            /\ tokens = EmptyList
            /\ fetched_tokens = start_tokens
            /\ aux_calls = 0
            /\ cycle_invoked = <<>>
    /\ (cycle = 0 /\ fetch_failed) =>
            /\ fetched_tokens = EmptyDict
            /\ calls = EmptyDict

\* a cycle has ended on a failed poll with tokens already in the seen-set
C8_Witness ==
    /\ pc = "sleep"
    /\ cycle >= 1
    /\ fetch_failed
    /\ DOMAIN fetched_tokens # {}

\* C9: once a termination signal was delivered with graceful_shutdown
\* installed, the shutdown message is posted, the process has ended with
\* status 0, and no poll or token post followed the message.
C9_Shutdown ==
    (handlers /\ signals > 0) =>
        (shutdown_sent /\ exit = "exit0" /\ ~after_shutdown)

\* C10: whatever the token, the auxiliary facts and the honeypot answer,
\* calculate_safety_score returns an integer from 1 to 10.
C10_Clamp ==
    pc = "warn_honeypot" => safety_score \in MinScore..MaxScore

\* the scorer has returned for a token with a fee float() rejects, and the
\* sum of the adjustments was below the lower bound
C10_Witness ==
    /\ pc = "warn_honeypot"
    /\ "developer_fee_percentage" \in DOMAIN CurToken
    /\ FloatRaises(CurToken["developer_fee_percentage"])
    /\ RawScore(CurToken, dex_data, penalised) < MinScore
    /\ safety_score = MinScore

\* C11: scorer determinism: two evaluations of calculate_safety_score with the
\* same token and the same auxiliary facts return the same score, whatever the
\* honeypot service answers between or during the two evaluations.
C11_Deterministic ==
    score_before # NoScore => safety_score = score_before

\* the first scenario: fee 50, no socials, unlocked liquidity 500, one wallet
\* for development and distribution
RiskyToken ==
    ("token_mint_address" :> "A") @@ ("developer_fee_percentage" :> Num(50))
    @@ ("dev_wallet_address" :> <<"W1">>) @@ ("distribution_wallet_address" :> <<"W1">>)

RiskyDexData == get_dex_data(DexResponse("json", 1, Num(500), FALSE, FALSE, Num(1)))

\* the second scenario: fee 5, three valid socials, locked liquidity 30000,
\* distinct wallets
SoundToken ==
    ("token_mint_address" :> "A") @@ ("developer_fee_percentage" :> Num(5))
    @@ ("website_url" :> <<"http", "s", "://", "site.io">>)
    @@ ("telegram_url" :> <<"t.me", "/grp">>)
    @@ ("x_account_url" :> <<"x.com", "/acct">>)
    @@ ("dev_wallet_address" :> <<"W1">>) @@ ("distribution_wallet_address" :> <<"W2">>)

SoundDexData == get_dex_data(DexResponse("json", 1, Num(30000), TRUE, FALSE, Num(1)))

\* the baseline plus the adjustments that applied to the token just scored
AdjustedSum ==
    Baseline + FeeAdjustment(CurToken) + SocialAdjustment(CurToken)
    + LiquidityAdjustment(dex_data) + SameWalletAdjustment(CurToken)
    + WebsiteAdjustment(CurToken) + (IF penalised THEN -3 ELSE 0)

\* C12: the score is the baseline plus all applicable adjustments, clamped once
\* at the end, and the tier follows from the final score alone (>= 8 High
\* Safety, 5..7 Medium Risk, < 5 High Risk); the risky scenario with honeypot
\* true scores 1, High Risk, and the sound scenario without honeypot scores 10,
\* High Safety.
C12_SumClampTier ==
    pc = "warn_honeypot" =>
        /\ safety_score = (IF AdjustedSum < 1 THEN 1
                           ELSE IF AdjustedSum > 10 THEN 10 ELSE AdjustedSum)
        /\ SafetyComment(safety_score) =
               (CASE safety_score \in 8..10 -> "High Safety"
                  [] safety_score \in 5..7 -> "Medium Risk"
                  [] safety_score \in 1..4 -> "High Risk")
        /\ (CurToken = RiskyToken /\ dex_data = RiskyDexData /\ penalised)
               => (safety_score = 1 /\ SafetyComment(safety_score) = "High Risk")
        /\ (CurToken = SoundToken /\ dex_data = SoundDexData /\ ~penalised)
               => (safety_score = 10 /\ SafetyComment(safety_score) = "High Safety")

\* the risky scenario has been scored, its sum far below the lower bound
C12_Witness ==
    /\ pc = "warn_honeypot"
    /\ CurToken = RiskyToken
    /\ dex_data = RiskyDexData
    /\ penalised
    /\ AdjustedSum = -5
    /\ safety_score = 1

\* the liquidity amount of the facts is unknown: get_dex_data found no usd
\* figure (None) or one that float() rejects
LiquidityUnknown ==
    DexTruthy(dex_data) /\ FloatRaises(dex_data.liquidity)

\* lines 143-144 alone: the bonus of a known locked or burned flag
LockBonus ==
    IF DexTruthy(dex_data) /\ (dex_data.locked \/ dex_data.burned) THEN 2 ELSE 0

\* the score computed without the liquidity-size term of lines 147-154
ScoreWithoutLiquiditySize ==
    ClampScore(Baseline + FeeAdjustment(CurToken) + SocialAdjustment(CurToken)
               + LockBonus + SameWalletAdjustment(CurToken)
               + WebsiteAdjustment(CurToken) + (IF penalised THEN -3 ELSE 0))

\* C13: when dex_data is None or the liquidity amount is unknown, the scorer
\* returns (it does not raise) the score computed without the liquidity-size
\* term; a known locked or burned flag still contributes its +2 when the
\* amount is unknown.
C13_LiquidityUnknownSafe ==
    (pc = "warn_honeypot" /\ (~DexTruthy(dex_data) \/ LiquidityUnknown)) =>
        /\ exit = "running"
        /\ safety_score \in MinScore..MaxScore
        /\ safety_score = ScoreWithoutLiquiditySize
        /\ LiquidityAdjustment(dex_data) = LockBonus
        /\ ~DexTruthy(dex_data) => LockBonus = 0

\* a token with locked liquidity of unknown amount has been scored, and the
\* +2 shows in an unclamped score
C13_Witness ==
    /\ pc = "warn_honeypot"
    /\ LiquidityUnknown
    /\ dex_data.liquidity = Null
    /\ dex_data.locked
    /\ LockBonus = 2
    /\ safety_score = AdjustedSum
    /\ safety_score = 2 + Baseline + FeeAdjustment(CurToken) + SocialAdjustment(CurToken)
                        + SameWalletAdjustment(CurToken) + WebsiteAdjustment(CurToken)
                        + (IF penalised THEN -3 ELSE 0)

\* the facts of the token in hand do not themselves make the caption raise
FactsRenderable ==
    ~DexTruthy(dex_data)
    \/ (~FormatCurrencyRaises(dex_data.liquidity) /\ ~FloatRaises(dex_data.price))

\* C14: for a new token that is complete but for its website_url,
\* send_token_info does not raise (and so goes on to send the notification).
C14_MissingWebsiteTolerated ==
    (/\ tokens.shape = "list"
     /\ idx <= Len(tokens.items)
     /\ DOMAIN CurToken = DOMAIN TokenA \ {"website_url"}
     /\ FactsRenderable)
    => exit # "raised in send_token_info"

\* the website-quality adjustment as two independent checks: -1 for a URL with
\* http:// and without https://, -2 for a placeholder domain
IndependentWebsiteChecks(token) ==
    IF "website_url" \in DOMAIN token /\ StrTruthy(token["website_url"])
    THEN LET website == Lower(token["website_url"])
             plainHttp == /\ Contains(website, <<"http", "://">>)
                          /\ ~Contains(website, <<"http", "s", "://">>)
             bad == \E bad_word \in {<<"example.com">>, <<"temp.com">>, <<"placeholder">>} :
                        Contains(website, bad_word)
         IN  (IF plainHttp THEN -1 ELSE 0) + (IF bad THEN -2 ELSE 0)
    ELSE 0

\* C15: the website step contributes -1 for a website_url that uses http://
\* and not https://, -2 for one containing example.com, temp.com or
\* placeholder, and -3 for a plain-http placeholder URL.
C15_WebsiteQuality ==
    pc = "warn_honeypot" =>
        safety_score = ClampScore(AdjustedSum - WebsiteAdjustment(CurToken)
                                  + IndependentWebsiteChecks(CurToken))

\* the developer-fee adjustment by the ranges of the fee, with a missing or
\* non-numeric fee contributing nothing
FeeByRange(token) ==
    IF "developer_fee_percentage" \notin DOMAIN token THEN 0
    ELSE LET dev_fee == token["developer_fee_percentage"]
         IN  IF dev_fee.k # "num" THEN 0
             ELSE IF dev_fee.v > 30 THEN -3
             ELSE IF dev_fee.v > 20 THEN -1
             ELSE IF dev_fee.v < 10 THEN 1
             ELSE 0

\* C16: the fee step contributes -3 for fee > 30, -1 for fee in (20,30], +1 for
\* fee < 10, 0 for fee in [10,20], and 0 for a token whose
\* developer_fee_percentage is missing or non-numeric.
C16_FeeAdjustment ==
    pc = "warn_honeypot" =>
        safety_score = ClampScore(AdjustedSum - FeeAdjustment(CurToken)
                                  + FeeByRange(CurToken))

\* the social fields of `token` that are present and start with their marker
ValidSocials(token) ==
    { field \in {"website_url", "telegram_url", "x_account_url"} :
        /\ field \in DOMAIN token
        /\ StartsWith(token[field],
                      CASE field = "website_url" -> <<"http">>
                        [] field = "telegram_url" -> <<"t.me">>
                        [] field = "x_account_url" -> <<"x.com">>) }

\* C17: with n the number of the three social fields that are present and
\* start with their expected marker, the social step contributes +2 for n = 3,
\* +1 for n = 2, 0 for n = 1 and -1 for n = 0, exactly one of the four.
C17_SocialPresence ==
    pc = "warn_honeypot" =>
        LET n == Cardinality(ValidSocials(CurToken))
            byCount == CASE n = 3 -> 2 [] n = 2 -> 1 [] n = 1 -> 0 [] n = 0 -> -1
        IN  /\ n \in 0..3
            /\ SocialAdjustment(CurToken) = byCount
            /\ safety_score = ClampScore(AdjustedSum - SocialAdjustment(CurToken) + byCount)

\* a token with exactly one valid social field has been scored, unclamped
C17_Witness ==
    /\ pc = "warn_honeypot"
    /\ Cardinality(ValidSocials(CurToken)) = 1
    /\ SocialAdjustment(CurToken) = 0
    /\ safety_score = AdjustedSum

\* C18: inside one notification the honeypot warning line is in the message
\* if and only if the -3 honeypot penalty was applied to the score the message
\* shows, whatever the honeypot service does on each request.
C18_WarningIffPenalty ==
    pc = "post" => (honeypot_warning <=> penalised)

\* send_token_info is running for the token in hand (lines 183-279)
Notifying ==
    pc \in {"send_token_info", "get_dex_data", "score_honeypot", "warn_honeypot", "post"}

\* C19: a token is in fetched_tokens before and throughout its notification
\* attempt, and a token whose photo post failed stays recorded and is never
\* attempted again: it has been handed to send_token_info exactly once.
C19_SeenBeforeNotifyNoRetry ==
    /\ Notifying => CurToken["token_mint_address"] \in DOMAIN fetched_tokens
    /\ \A id \in failed :
        /\ id \in DOMAIN fetched_tokens
        /\ Get(calls, id, 0) = 1

\* a later cycle listed a token whose post had failed, and passed it over
C19_Witness ==
    /\ pc = "sleep"
    /\ cycle = 2
    /\ tokens.shape = "list"
    /\ \E id \in failed :
        /\ id \in IdsOf(tokens.items)
        /\ \A i \in 1..Len(cycle_invoked) : cycle_invoked[i] # id
        /\ Get(calls, id, 0) = 1

=============================================================================
